---- MODULE Spec2Model ----
(***************************************************************************)
(* A model of trod's column / field / key declarations and of its          *)
(* expression layer (src/trod/types_/field.py, src/trod/types/index.py).   *)
(*                                                                         *)
(* Python objects are records tagged with their class in field t.  The     *)
(* module-level mutable state is the two class attributes                  *)
(* FieldBase._field_counter and BaseIndex._attr_key_num; the objects built  *)
(* so far are kept in construction order in objs, and the names of the     *)
(* calling program that are bound to Expr objects in env.                  *)
(***************************************************************************)
EXTENDS Integers, Sequences, FiniteSets, TLC

(* Records.  TLC keeps the fields of a record in the order in which their     *)
(* names first occur in the module, and sorts a record written in another   *)
(* order when it is first compared; every record below is written in the    *)
(* order of this table, so that no record is ever re-sorted.                *)
FieldOrder ==
    <<[t |-> 1, fn |-> 2, err |-> 3, warn |-> 4, dst |-> 5, self |-> 6,
       arg |-> 7, val |-> 8, expr |-> 9, counter |-> 10],
      [name |-> 1, null |-> 2, default |-> 3, comment |-> 4, column |-> 5,
       options |-> 6, key_name |-> 7, cols |-> 8, primary_key |-> 9,
       unsigned |-> 10, length |-> 11, encoding |-> 12, seq_num |-> 13,
       before |-> 14, thread |-> 15],
      [pair |-> 1, op |-> 2, lhs |-> 3, rhs |-> 4, flat |-> 5, logic |-> 6,
       b |-> 7, i |-> 8, s |-> 9, items |-> 10, start |-> 11, stop |-> 12]>>

VARIABLES
    field_counter,   \* FieldBase._field_counter
    attr_key_num,    \* BaseIndex._attr_key_num
    objs,            \* the fields and keys constructed so far, oldest first
    env,             \* caller's names -> the Expr object bound to each
    ret,             \* the last call: what was called, with what, and its outcome
    pc,              \* per thread: position inside FieldBase.__init__
    tmp,             \* per thread: the value loaded by _field_counter += 1
    cur,             \* per thread: the object under construction
    calls            \* per thread: constructor calls started so far

vars == <<field_counter, attr_key_num, objs, env, ret, pc, tmp, cur, calls>>

-----------------------------------------------------------------------------
(* Bounds of the model *)

MaxDecls == 3        \* declarations made in one run of SpecDecl
MaxLive == 1         \* declarations made in one run of SpecField
NThreads == 2        \* threads constructing fields at the same time
MaxCalls == 2        \* constructor calls per thread
MaxLen == 36         \* longest text a logical composition is given to nest

-----------------------------------------------------------------------------
(* Python values *)

None == [t |-> "NoneType"]
PyBool(b) == [t |-> "bool", b |-> b]
PyInt(i) == [t |-> "int", i |-> i]
PyStr(s) == [t |-> "str", s |-> s]
PyList(xs) == [t |-> "list", items |-> xs]
PyTuple(xs) == [t |-> "tuple", items |-> xs]
PySlice(a, b) == [t |-> "slice", start |-> a, stop |-> b]

True == PyBool(TRUE)
False == PyBool(FALSE)

\* the classes for which isinstance(x, Column) is true
ColumnTypes ==
    {"Column", "FieldBase", "Tinyint", "Smallint", "Int", "Bigint", "Text"}

IsColumn(v) == v.t \in ColumnTypes

\* isinstance(v, collections.abc.Iterable)
IsIterable(v) == v.t \in {"list", "tuple", "str"}

\* bool(v)
Truthy(v) ==
    CASE v.t = "NoneType" -> FALSE
      [] v.t = "bool" -> v.b
      [] v.t = "int" -> v.i # 0
      [] v.t = "str" -> v.s # ""
      [] v.t \in {"list", "tuple"} -> v.items # <<>>
      [] OTHER -> TRUE

RECURSIVE Str(_)
RECURSIVE Repr(_)
RECURSIVE JoinRepr(_)

\* ', '.join(repr(x) for x in xs)
JoinRepr(xs) ==
    IF xs = <<>> THEN ""
    ELSE IF Len(xs) = 1 THEN Repr(xs[1])
    ELSE Repr(xs[1]) \o ", " \o JoinRepr(Tail(xs))

\* str(v), which is also what an f-string substitutes for {v}
Str(v) ==
    CASE v.t = "NoneType" -> "None"
      [] v.t = "bool" -> IF v.b THEN "True" ELSE "False"
      [] v.t = "int" -> ToString(v.i)
      [] v.t = "str" -> v.s
      [] v.t = "list" -> "[" \o JoinRepr(v.items) \o "]"
      [] v.t = "tuple" ->
            "(" \o JoinRepr(v.items)
                \o (IF Len(v.items) = 1 THEN "," ELSE "") \o ")"
      [] v.t \in ColumnTypes -> "<" \o v.t \o ": " \o Str(v.name) \o ">"
      [] OTHER -> "<" \o v.t \o " object>"

\* repr(v)
Repr(v) == IF v.t = "str" THEN "'" \o v.s \o "'" ELSE Str(v)

RECURSIVE Chars(_)
\* the characters of a python str, as one-character strs
Chars(s) ==
    IF s = "" THEN <<>>
    ELSE <<PyStr(SubSeq(s, 1, 1))>> \o Chars(SubSeq(s, 2, Len(s)))

\* tuple(v) for an iterable v
ToTuple(v) ==
    IF v.t = "str" THEN PyTuple(Chars(v.s)) ELSE PyTuple(v.items)

\* the back-quote character
BQ == SubSeq("`'", 1, 1)

RECURSIVE Join(_, _)
\* sep.join(xs) for a sequence of TLA+ strings
Join(sep, xs) ==
    IF xs = <<>> THEN ""
    ELSE IF Len(xs) = 1 THEN xs[1]
    ELSE xs[1] \o sep \o Join(sep, Tail(xs))

-----------------------------------------------------------------------------
(* Field constructors: each returns the error raised (or ""), the object,   *)
(* the value of FieldBase._field_counter afterwards, and the warnings.     *)

\* the mutated form of FieldBase__init__: the number is computed but the
\* class attribute is not written back
FieldBase__init__nostore(self, name, null, default, comment, counter) ==
    IF null.t # "bool"
    THEN [err |-> "ValueError", self |-> self, counter |-> counter]
    ELSE [err |-> "",
          self |-> [name |-> name, null |-> null, default |-> default,
                    comment |-> comment, seq_num |-> counter + 1] @@ self,
          counter |-> counter]

\* the mutated form of FieldBase__init__: the number is taken before null
\* is checked
FieldBase__init__early(self, name, null, default, comment, counter) ==
    IF null.t # "bool"
    THEN [err |-> "ValueError", self |-> self, counter |-> counter + 1]
    ELSE [err |-> "",
          self |-> [name |-> name, null |-> null, default |-> default,
                    comment |-> comment, seq_num |-> counter + 1] @@ self,
          counter |-> counter + 1]

FieldBase__init__(self, name, null, default, comment, counter) ==
    IF null.t # "bool"
    THEN [err |-> "ValueError", self |-> self, counter |-> counter]
    ELSE [err |-> "",
          self |-> [name |-> name, null |-> null, default |-> default,
                    comment |-> comment, seq_num |-> counter + 1] @@ self,
          counter |-> counter + 1]

Tinyint__init__(self, length, unsigned, null, default, comment, name, counter) ==
    LET r == FieldBase__init__(self, name, null, default, comment, counter)
    IN  IF r.err # "" THEN r
        ELSE [r EXCEPT !.self =
                 [unsigned |-> unsigned, length |-> length] @@ r.self]

\* the mutated form of Int__init__: a primary key keeps the null and the
\* default it was given
Int__init__keep(self, length, unsigned, null, primary_key, default, comment, name, counter) ==
    LET r == Tinyint__init__(self, length, unsigned, null, default, comment,
                             name, counter)
    IN  IF r.err # "" THEN r @@ [warn |-> <<>>]
        ELSE [err |-> "", warn |-> <<>>,
              self |-> [primary_key |-> primary_key] @@ r.self,
              counter |-> r.counter]

Int__init__(self, length, unsigned, null, primary_key, default, comment, name, counter) ==
    LET r == Tinyint__init__(self, length, unsigned, null, default, comment,
                             name, counter)
        s == [primary_key |-> primary_key] @@ r.self
    IN  IF r.err # "" THEN r @@ [warn |-> <<>>]
        ELSE IF primary_key = True
        THEN [err |-> "",
              warn |-> IF Truthy(s.null)
                       THEN <<"Primary_key is not allow null, use default">>
                       ELSE <<>>,
              self |-> [s EXCEPT !.null = False, !.default = None],
              counter |-> r.counter]
        ELSE [err |-> "", warn |-> <<>>, self |-> s, counter |-> r.counter]

Text__init__(self, encoding, null, comment, name, counter) ==
    LET r == FieldBase__init__(self, name, null, None, comment, counter)
    IN  IF r.err # "" THEN r
        ELSE [r EXCEPT !.self = [encoding |-> encoding] @@ r.self]

-----------------------------------------------------------------------------
(* Key constructors *)

\* BaseIndex.__init__; target is the text left of '=' on the caller's source
\* line, which is what traceback.extract_stack() yields for name=None
BaseIndex__init__(self, column, comment, name, target) ==
    LET nm == IF name = None THEN PyStr(target) ELSE name
        cl == IF column.t = "list" THEN column.items ELSE <<column>>
        quoted == [i \in 1..Len(cl) |-> BQ \o Str(cl[i]) \o BQ]
    IN  [name |-> nm, comment |-> comment, column |-> quoted,
         options |-> [comment |-> comment, key_name |-> nm,
                      cols |-> Join(",", quoted)]] @@ self

\* the class attribute _type_sql_tpl of Key and UniqueKey, applied by build()
BaseIndex_build(self) ==
    (IF self.t = "UniqueKey" THEN "UNIQUE " ELSE "")
        \o "KEY " \o BQ \o Str(self.options.key_name) \o BQ \o " ("
        \o self.options.cols \o ") COMMENT '"
        \o Str(self.options.comment) \o "'"

IsField(o) == o.t \in ColumnTypes
IsKey(o) == o.t \in {"Key", "UniqueKey"}

-----------------------------------------------------------------------------
(* Hashing and DDL text of fields and keys: each returns the error raised   *)
(* (or "") and the value returned.                                          *)

\* hash(self) for a column or field: Column defines __eq__ and no __hash__,
\* so python sets __hash__ to None for the class and its subclasses and the
\* call raises TypeError (unhashable type), whatever the name is
Column__hash__(self) == [err |-> "TypeError", val |-> None]

\* hash(self) for a key: BaseIndex defines neither __eq__ nor __hash__, the
\* value is object.__hash__, which is made from the identity id of the object
object__hash__(id) == [err |-> "", val |-> [t |-> "hash", i |-> id]]

\* hash(s) for a python str
str__hash__(v) == [t |-> "hash", s |-> v.s]

\* The attributes of a field are its slots (name, null, default, comment,
\* _seq_num, unsigned, length), primary_key and encoding, and what its classes
\* define (_py_type, _db_type, _type_tpl, _spaces, _field_counter, the
\* properties _allow_null, _type, _stmt and seq_num, sql, auto).  No class
\* defines __getattr__, so a read of any other name raises AttributeError.

\* the property FieldBase._stmt: its first statement reads self.allow_null,
\* which no class defines (the property is _allow_null); the statements after
\* it, the type check of the default among them, are never reached
FieldBase_stmt(self) == [err |-> "AttributeError", val |-> None]

\* the property Text._stmt: the encoding clause is put in a local list, then
\* self.allow_null is read
Text_stmt(self) == [err |-> "AttributeError", val |-> None]

\* FieldBase.sql(): the f-string reads self.type first (the property is
\* _type), so nothing is formatted
FieldBase_sql(self) == [err |-> "AttributeError", val |-> None]

-----------------------------------------------------------------------------
(* Expressions *)

\* the table OPER, name to SQL token
OPER ==
    "AND" :> "AND" @@ "OR" :> "OR" @@ "ADD" :> "+"
    @@ "SUB" :> "-" @@ "MUL" :> "*" @@ "DIV" :> "/"
    @@ "BIN_AND" :> "&" @@ "BIN_OR" :> "|" @@ "XOR" :> "#"
    @@ "MOD" :> "%" @@ "EQ" :> "=" @@ "LT" :> "<"
    @@ "LTE" :> "<=" @@ "GT" :> ">" @@ "GTE" :> ">="
    @@ "NE" :> "!=" @@ "IN" :> "IN" @@ "NOT_IN" :> "NOT IN"
    @@ "IS" :> "IS" @@ "IS_NOT" :> "IS NOT" @@ "LIKE" :> "LIKE"
    @@ "ILIKE" :> "ILIKE" @@ "EXISTS" :> "EXISTS" @@ "BETWEEN" :> "BETWEEN"
    @@ "REGEXP" :> "REGEXP" @@ "IREGEXP" :> "IREGEXP" @@ "BITWISE_NEGATION" :> "~"

\* the mutated form of Cnt__init__: only the left operand is wrapped
Cnt__init__left(pair, op, encap) ==
    [pair |-> IF ~encap THEN pair
              ELSE <<PyStr("(" \o Str(pair[1]) \o ")"), pair[2]>>,
     op |-> op]

Cnt__init__(pair, op, encap) ==
    [pair |-> IF ~encap THEN pair
              ELSE [i \in 1..Len(pair) |-> PyStr("(" \o Str(pair[i]) \o ")")],
     op |-> op]

\* the property Cnt.sql
Cnt_sql(self) ==
    PyStr(Str(self.pair[1]) \o " " \o self.op \o " " \o Str(self.pair[2]))

Expr__init__(lhs, op, rhs, flat, logic) ==
    [t |-> "Expr", op |-> op, lhs |-> IF IsColumn(lhs) THEN lhs.name ELSE lhs,
     rhs |-> IF IsColumn(rhs) THEN rhs.name ELSE rhs, flat |-> flat,
     logic |-> logic]

\* Expr.__sql__: the error raised (or ""), the text returned, and self as
\* the call leaves it
Expr__sql__(self) ==
    IF self.op \in {OPER["IN"], OPER["NOT_IN"], OPER["EXISTS"]}
    THEN IF ~IsIterable(self.rhs)
         THEN [err |-> "ValueError", self |-> self, val |-> None]
         ELSE LET m == [self EXCEPT !.rhs = ToTuple(self.rhs)]
              IN  [err |-> "", self |-> m,
                   val |-> Cnt_sql(Cnt__init__(<<m.lhs, m.rhs>>, m.op, m.logic))]
    ELSE [err |-> "", self |-> self,
          val |-> Cnt_sql(Cnt__init__(<<self.lhs, self.rhs>>, self.op, self.logic))]

\* the body shared by Expr.__and__ and Expr.__or__: the error raised, the
\* new Expr, and both operands as the call leaves them
Expr_logic(self, op, expr) ==
    IF expr.t # "Expr"
    THEN [err |-> "ValueError", self |-> self, val |-> None, expr |-> expr]
    ELSE LET l == Expr__sql__(self)
             r == Expr__sql__(expr)
         IN  IF l.err # ""
             THEN [err |-> l.err, self |-> self, val |-> None, expr |-> expr]
             ELSE IF r.err # ""
             THEN [err |-> r.err, self |-> l.self, val |-> None, expr |-> expr]
             ELSE [err |-> "", self |-> l.self,
                   val |-> Expr__init__(l.val, op, r.val, FALSE, TRUE),
                   expr |-> r.self]

Expr__and__(self, expr) == Expr_logic(self, OPER["AND"], expr)
Expr__or__(self, expr) == Expr_logic(self, OPER["OR"], expr)

\* v & e and v | e for a v that is neither an Expr nor a Column (method is
\* __rand__ or __ror__): v's own method does not take an Expr, and class Expr
\* defines no reflected method, so the interpreter raises TypeError
Expr_reflected(v, method, e) ==
    [err |-> "TypeError", self |-> e, val |-> None, expr |-> v]

-----------------------------------------------------------------------------
(* Columns *)

Column__init__(name) == [t |-> "Column", name |-> name]

\* the mutated form of Column_expr: inv is ignored
Column_expr_noinv(op, inv, self, rhs) ==
    Expr__init__(self, op, rhs, FALSE, FALSE)

\* the wrapper Column._expr(op, inv) returns, applied to self and rhs
Column_expr(op, inv, self, rhs) ==
    IF inv THEN Expr__init__(rhs, op, self, FALSE, FALSE)
    ELSE Expr__init__(self, op, rhs, FALSE, FALSE)

\* the methods of Column made by _expr: <<name, op, inv>>
ColumnExprMethods ==
    {<<"__and__", OPER["AND"], FALSE>>, <<"__or__", OPER["OR"], FALSE>>,
     <<"__add__", OPER["ADD"], FALSE>>, <<"__sub__", OPER["SUB"], FALSE>>,
     <<"__mul__", OPER["MUL"], FALSE>>, <<"__truediv__", OPER["DIV"], FALSE>>,
     <<"__div__", OPER["DIV"], FALSE>>, <<"__rdiv__", OPER["DIV"], TRUE>>,
     <<"__xor__", OPER["XOR"], FALSE>>,
     <<"__radd__", OPER["ADD"], TRUE>>, <<"__rsub__", OPER["SUB"], TRUE>>,
     <<"__rmul__", OPER["MUL"], TRUE>>, <<"__rtruediv__", OPER["DIV"], TRUE>>,
     <<"__rand__", OPER["AND"], TRUE>>, <<"__ror__", OPER["OR"], TRUE>>,
     <<"__rxor__", OPER["XOR"], TRUE>>,
     <<"__lt__", OPER["LT"], FALSE>>, <<"__le__", OPER["LTE"], FALSE>>,
     <<"__gt__", OPER["GT"], FALSE>>, <<"__ge__", OPER["GTE"], FALSE>>,
     <<"__lshift__", OPER["IN"], FALSE>>, <<"__rshift__", OPER["IS"], FALSE>>,
     <<"__mod__", OPER["LIKE"], FALSE>>, <<"__pow__", OPER["ILIKE"], FALSE>>,
     <<"b_and", OPER["BIN_AND"], FALSE>>, <<"b_or", OPER["BIN_OR"], FALSE>>,
     <<"in_", OPER["IN"], FALSE>>, <<"nin", OPER["NOT_IN"], FALSE>>,
     <<"regexp", OPER["REGEXP"], FALSE>>, <<"iregexp", OPER["IREGEXP"], FALSE>>,
     <<"exists", OPER["EXISTS"], FALSE>>, <<"like", OPER["LIKE"], FALSE>>}

\* the mutated form of Column__eq__: always =
Column__eq__always(self, rhs) == Expr__init__(self, OPER["EQ"], rhs, FALSE, FALSE)

Column__eq__(self, rhs) ==
    Expr__init__(self, IF rhs = None THEN OPER["IS"] ELSE OPER["EQ"], rhs,
                 FALSE, FALSE)

Column__ne__(self, rhs) ==
    Expr__init__(self, IF rhs = None THEN OPER["IS_NOT"] ELSE OPER["NE"], rhs,
                 FALSE, FALSE)

Column_is_null(self, is_null) ==
    Expr__init__(self, IF Truthy(is_null) THEN OPER["IS"] ELSE OPER["IS_NOT"], None,
                 FALSE, FALSE)

Column_between(self, low, hig) ==
    Expr__init__(self, OPER["BETWEEN"],
                 Cnt_sql(Cnt__init__(<<low, hig>>, OPER["AND"], FALSE)),
                 FALSE, FALSE)

\* the mutated form of Column__getitem__: only the start of a slice is
\* checked
Column__getitem__startonly(self, item) ==
    IF item.t = "slice"
    THEN IF item.start = None
         THEN [err |-> "ValueError", val |-> None]
         ELSE [err |-> "", val |-> Column_between(self, item.start, item.stop)]
    ELSE [err |-> "", val |-> Column__eq__(self, item)]

Column__getitem__(self, item) ==
    IF item.t = "slice"
    THEN IF item.start = None \/ item.stop = None
         THEN [err |-> "ValueError", val |-> None]
         ELSE [err |-> "", val |-> Column_between(self, item.start, item.stop)]
    ELSE [err |-> "", val |-> Column__eq__(self, item)]

-----------------------------------------------------------------------------
(* State *)

Names == {"x", "y"}          \* the caller's names that hold Expr objects
Threads == 1..NThreads

Unbound == [t |-> "unbound"]

Init ==
    /\ field_counter = 0
    /\ attr_key_num = 0
    /\ objs = <<>>
    /\ env = [n \in Names |-> Unbound]
    /\ ret = [fn |-> "", err |-> ""]
    /\ pc = [t \in Threads |-> "idle"]
    /\ tmp = [t \in Threads |-> 0]
    /\ cur = [t \in Threads |-> None]
    /\ calls = [t \in Threads |-> 0]

threadVars == <<pc, tmp, cur, calls>>

\* what a constructor call leaves behind: the class attribute holds
\* whatever the constructor wrote to it, and the object exists for the
\* caller only if no error was raised
Constructed(r) ==
    /\ field_counter' = r.counter
    /\ objs' = IF r.err = "" THEN Append(objs, r.self) ELSE objs

-----------------------------------------------------------------------------
(* Declarations made one after another *)

\* cls(length, unsigned, null, default, comment, name), cls Tinyint or Smallint
NewTinyint(cls, length, unsigned, null, default, comment, name) ==
    LET r == Tinyint__init__([t |-> cls], length, unsigned, null, default,
                             comment, name, field_counter)
    IN  /\ Constructed(r)
        /\ ret' = [fn |-> cls, err |-> r.err, warn |-> <<>>, name |-> name,
                   null |-> null, default |-> default, comment |-> comment,
                   before |-> field_counter]
        /\ UNCHANGED <<attr_key_num, env, threadVars>>

\* cls(length, unsigned, null, primary_key, default, comment, name), cls Int
\* or Bigint
NewInt(cls, length, unsigned, null, primary_key, default, comment, name) ==
    LET r == Int__init__([t |-> cls], length, unsigned, null, primary_key,
                         default, comment, name, field_counter)
    IN  /\ Constructed(r)
        /\ ret' = [fn |-> cls, err |-> r.err, warn |-> r.warn, name |-> name,
                   null |-> null, default |-> default, comment |-> comment,
                   primary_key |-> primary_key, before |-> field_counter]
        /\ UNCHANGED <<attr_key_num, env, threadVars>>

\* Text(encoding, null, comment, name)
NewText(encoding, null, comment, name) ==
    LET r == Text__init__([t |-> "Text"], encoding, null, comment, name,
                          field_counter)
    IN  /\ Constructed(r)
        /\ ret' = [fn |-> "Text", err |-> r.err, warn |-> <<>>, name |-> name,
                   null |-> null, default |-> None, comment |-> comment,
                   before |-> field_counter]
        /\ UNCHANGED <<attr_key_num, env, threadVars>>

\* cls(column, comment, name), cls Key or UniqueKey
NewKey(cls, column, comment, name, target) ==
    /\ objs' = Append(objs, BaseIndex__init__([t |-> cls], column, comment,
                                              name, target))
    /\ ret' = [fn |-> cls, err |-> "", warn |-> <<>>, name |-> name,
               comment |-> comment, column |-> column,
               before |-> field_counter]
    /\ UNCHANGED <<field_counter, attr_key_num, env, threadVars>>

\* reading the property objs[i]._attr_key
AttrKey(i) ==
    /\ IsKey(objs[i])
    /\ attr_key_num' = attr_key_num + 1
    /\ ret' = [fn |-> "_attr_key", err |-> "", self |-> i,
               val |-> attr_key_num + 1]
    /\ UNCHANGED <<field_counter, objs, env, threadVars>>

\* what a call on the object objs[i] leaves behind
Called(fn, i, r) ==
    /\ ret' = [fn |-> fn, err |-> r.err, self |-> objs[i], val |-> r.val]
    /\ UNCHANGED <<field_counter, attr_key_num, objs, env, threadVars>>

\* hash(objs[i])
Hash(i) ==
    Called("__hash__", i,
           IF IsKey(objs[i]) THEN object__hash__(i)
           ELSE Column__hash__(objs[i]))

\* reading the property objs[i]._stmt
FieldStmt(i) ==
    /\ IsField(objs[i])
    /\ Called("_stmt", i,
              IF objs[i].t = "Text" THEN Text_stmt(objs[i])
              ELSE FieldBase_stmt(objs[i]))

\* objs[i].sql()
FieldSql(i) ==
    /\ IsField(objs[i])
    /\ Called("FieldBase.sql", i, FieldBase_sql(objs[i]))

\* objs[i].build()
KeyBuild(i) ==
    /\ IsKey(objs[i])
    /\ Called("build", i,
              [err |-> "", val |-> PyStr(BaseIndex_build(objs[i]))])

-----------------------------------------------------------------------------
(* FieldBase.__init__ run by several threads, one bytecode-level step at a  *)
(* time: the check of null and the plain attribute stores, then the load,   *)
(* the store and the second load of FieldBase._field_counter.               *)

\* lines 187-193
T_Begin(t, null) ==
    /\ pc[t] = "idle"
    /\ calls[t] < MaxCalls
    /\ calls' = [calls EXCEPT ![t] = @ + 1]
    /\ IF null.t # "bool"
       THEN /\ ret' = [fn |-> "FieldBase", err |-> "ValueError", thread |-> t]
            /\ UNCHANGED <<pc, cur>>
       ELSE /\ pc' = [pc EXCEPT ![t] = "load"]
            /\ cur' = [cur EXCEPT ![t] =
                          [t |-> "FieldBase", name |-> None, null |-> null,
                           default |-> None, comment |-> PyStr("")]]
            /\ UNCHANGED ret
    /\ UNCHANGED <<field_counter, attr_key_num, objs, env, tmp>>

\* line 195, the read of FieldBase._field_counter
T_Load(t) ==
    /\ pc[t] = "load"
    /\ tmp' = [tmp EXCEPT ![t] = field_counter]
    /\ pc' = [pc EXCEPT ![t] = "store"]
    /\ UNCHANGED <<field_counter, attr_key_num, objs, env, ret, cur, calls>>

\* line 195, the write of the incremented value
T_Store(t) ==
    /\ pc[t] = "store"
    /\ field_counter' = tmp[t] + 1
    /\ pc' = [pc EXCEPT ![t] = "assign"]
    /\ UNCHANGED <<attr_key_num, objs, env, ret, tmp, cur, calls>>

\* line 196
T_Assign(t) ==
    /\ pc[t] = "assign"
    /\ objs' = Append(objs, [seq_num |-> field_counter] @@ cur[t])
    /\ ret' = [fn |-> "FieldBase", err |-> "", thread |-> t]
    /\ pc' = [pc EXCEPT ![t] = "idle"]
    /\ cur' = [cur EXCEPT ![t] = None]
    /\ UNCHANGED <<field_counter, attr_key_num, env, tmp, calls>>

-----------------------------------------------------------------------------
(* Calls on columns and expressions; the result is bound to the name n *)

declVars == <<field_counter, attr_key_num, objs>>

\* what a call that returns an Expr (or raises) leaves behind
Returned(n, fn, self, arg, r) ==
    /\ ret' = [fn |-> fn, err |-> r.err, dst |-> n, self |-> self,
               arg |-> arg, val |-> r.val]
    /\ env' = IF r.err = "" THEN [env EXCEPT ![n] = r.val] ELSE env
    /\ UNCHANGED <<declVars, threadVars>>

\* n = c.<m>(rhs) for a method m made by _expr
ColumnMethod(n, c, m, rhs) ==
    Returned(n, m[1], c, rhs,
             [err |-> "", val |-> Column_expr(m[2], m[3], c, rhs)])

\* n = (c == rhs)
ColumnEq(n, c, rhs) ==
    Returned(n, "__eq__", c, rhs, [err |-> "", val |-> Column__eq__(c, rhs)])

\* n = (c != rhs)
ColumnNe(n, c, rhs) ==
    Returned(n, "__ne__", c, rhs, [err |-> "", val |-> Column__ne__(c, rhs)])

\* n = c.is_null(flag)
ColumnIsNull(n, c, flag) ==
    Returned(n, "is_null", c, flag,
             [err |-> "", val |-> Column_is_null(c, flag)])

\* n = c.between(low, hig)
ColumnBetween(n, c, low, hig) ==
    Returned(n, "between", c, <<low, hig>>,
             [err |-> "", val |-> Column_between(c, low, hig)])

\* n = c[item]
ColumnGetItem(n, c, item) ==
    Returned(n, "__getitem__", c, item, Column__getitem__(c, item))

\* what a call of __and__ / __or__ leaves behind: both operands may have
\* been changed by their own __sql__
Combined(n, fn, a, b, r) ==
    /\ ret' = [fn |-> fn, err |-> r.err, dst |-> n, self |-> env[a],
               arg |-> env[b], val |-> r.val]
    /\ env' = IF r.err = ""
              THEN [env EXCEPT ![a] = r.self, ![b] = r.expr, ![n] = r.val]
              ELSE [env EXCEPT ![a] = r.self, ![b] = r.expr]
    /\ UNCHANGED <<declVars, threadVars>>

\* the length of the text e renders to (0 if rendering it raises)
TextLen(e) ==
    LET r == Expr__sql__(e) IN IF r.err = "" THEN Len(r.val.s) ELSE 0

\* n = a & b, both names bound to Expr objects
ExprAnd(n, a, b) ==
    /\ env[a].t = "Expr" /\ env[b].t = "Expr"
    /\ TextLen(env[a]) + TextLen(env[b]) <= MaxLen
    /\ Combined(n, "__and__", a, b, Expr__and__(env[a], env[b]))

\* n = a | b, both names bound to Expr objects
ExprOr(n, a, b) ==
    /\ env[a].t = "Expr" /\ env[b].t = "Expr"
    /\ TextLen(env[a]) + TextLen(env[b]) <= MaxLen
    /\ Combined(n, "__or__", a, b, Expr__or__(env[a], env[b]))

\* n = a & v for a value v that is no Expr
ExprAndValue(n, a, v) ==
    /\ env[a].t = "Expr"
    /\ Returned(n, "__and__", env[a], v, Expr__and__(env[a], v))

\* n = a | v for a value v that is no Expr
ExprOrValue(n, a, v) ==
    /\ env[a].t = "Expr"
    /\ Returned(n, "__or__", env[a], v, Expr__or__(env[a], v))

\* n = v & a for a value v that is no Expr
ValueAndExpr(n, v, a) ==
    /\ env[a].t = "Expr"
    /\ Returned(n, "__rand__", env[a], v, Expr_reflected(v, "__rand__", env[a]))

\* n = v | a for a value v that is no Expr
ValueOrExpr(n, v, a) ==
    /\ env[a].t = "Expr"
    /\ Returned(n, "__ror__", env[a], v, Expr_reflected(v, "__ror__", env[a]))

\* a.sql()
ExprSql(a) ==
    /\ env[a].t = "Expr"
    /\ LET r == Expr__sql__(env[a])
       IN  /\ ret' = [fn |-> "sql", err |-> r.err, dst |-> a, self |-> env[a],
                      arg |-> None, val |-> r.val]
           /\ env' = [env EXCEPT ![a] = r.self]
    /\ UNCHANGED <<declVars, threadVars>>

-----------------------------------------------------------------------------
(* Specifications *)

\* arguments the declarations are made with
NullArgs == {True, False, PyInt(1)}
DefaultArgs == {None, PyInt(1), PyStr("xxx")}
CommentArgs == {PyStr(""), PyStr("c")}
NameArgs == {None, PyStr("age")}
ColumnArgs ==
    {PyStr("age"), PyList(<<PyStr("name"), PyStr("age")>>),
     PyTuple(<<PyStr("name"), PyStr("age")>>),
     [t |-> "Column", name |-> PyStr("age")],
     PyList(<<PyInt(1), PyInt(2), PyInt(4)>>)}
Targets == {"idx"}
DefaultLength == PyInt(11)

\* declarations of every kind, one after another
NextDecl ==
    \/ /\ Len(objs) < MaxDecls
       /\ \E null \in NullArgs :
            \/ \E cls \in {"Tinyint", "Smallint"} :
                 NewTinyint(cls, DefaultLength, False, null, None, PyStr(""),
                            PyStr("age"))
            \/ \E cls \in {"Int", "Bigint"}, pk \in {True, False} :
                 NewInt(cls, DefaultLength, False, null, pk, None, PyStr(""),
                        PyStr("age"))
            \/ NewText(None, null, PyStr(""), PyStr("age"))
    \/ /\ Len(objs) < MaxDecls
       /\ \E cls \in {"Key", "UniqueKey"} :
            NewKey(cls, PyStr("age"), PyStr(""), PyStr("idx_age"), "idx")
    \/ /\ attr_key_num < MaxDecls
       /\ \E i \in 1..Len(objs) : AttrKey(i)

SpecDecl == Init /\ [][NextDecl]_vars

\* single declarations with every combination of arguments, and what can
\* be asked of the declared object
NextField ==
    \/ \E i \in 1..Len(objs) :
         \/ Hash(i)
         \/ FieldStmt(i)
         \/ FieldSql(i)
         \/ KeyBuild(i)
    \/ /\ Len(objs) < MaxLive
       /\ \E null \in NullArgs, default \in DefaultArgs,
             comment \in CommentArgs, name \in NameArgs :
            \/ \E cls \in {"Tinyint", "Smallint"} :
                 NewTinyint(cls, DefaultLength, False, null, default,
                            comment, name)
            \/ \E cls \in {"Int", "Bigint"}, pk \in {True, False} :
                 NewInt(cls, DefaultLength, False, null, pk, default,
                        comment, name)
            \/ /\ default = None
               /\ NewText(None, null, comment, name)
            \/ /\ null = True /\ default = None
               /\ \E cls \in {"Key", "UniqueKey"}, column \in ColumnArgs,
                     target \in Targets :
                    NewKey(cls, column, comment, name, target)

SpecField == Init /\ [][NextField]_vars

\* columns and values the expressions are built from
Age == Column__init__(PyStr("age"))
Name == Column__init__(PyStr("name"))
Bounds == {None, PyInt(10), PyInt(30)}
Literals ==
    {None, PyInt(10), PyStr("at"), PyList(<<PyStr("at7h"), PyInt(2)>>)}
Items == Literals \cup {PySlice(a, b) : a, b \in Bounds}

\* every operator and method of a column, and the rendering of the result
NextColumn ==
    \/ \E c \in {Age, Name} :
         \/ \E m \in ColumnExprMethods, v \in Literals :
              ColumnMethod("x", c, m, v)
         \/ \E v \in Literals : ColumnEq("x", c, v)
         \/ \E v \in Literals : ColumnNe("x", c, v)
         \/ \E flag \in {True, False} : ColumnIsNull("x", c, flag)
         \/ \E a, b \in Bounds : ColumnBetween("x", c, a, b)
         \/ \E item \in Items : ColumnGetItem("x", c, item)
    \/ ExprSql("x")

SpecColumn == Init /\ [][NextColumn]_vars

\* operands of & and | that are not expressions
Operands == {True, False, PyInt(1)}

\* a few comparisons composed with & and |, and rendered
NextExpr ==
    \/ \E n \in Names :
         \/ ColumnMethod(n, Age, <<"__gt__", OPER["GT"], FALSE>>, PyInt(10))
         \/ ColumnEq(n, Name, PyStr("test"))
         \/ ColumnMethod(n, Age, <<"in_", OPER["IN"], FALSE>>,
                         PyList(<<PyInt(10), PyInt(20)>>))
    \/ \E n, a, b \in Names : ExprAnd(n, a, b)
    \/ \E n, a, b \in Names : ExprOr(n, a, b)
    \/ \E n, a \in Names, v \in Operands :
         \/ ExprAndValue(n, a, v)
         \/ ExprOrValue(n, a, v)
         \/ ValueAndExpr(n, v, a)
         \/ ValueOrExpr(n, v, a)
    \/ \E a \in Names : ExprSql(a)

SpecExpr == Init /\ [][NextExpr]_vars

\* fields constructed by threads running at the same time
NextThreads ==
    \E t \in Threads :
        \/ \E null \in NullArgs : T_Begin(t, null)
        \/ T_Load(t)
        \/ T_Store(t)
        \/ T_Assign(t)

SpecThreads == Init /\ [][NextThreads]_vars

-----------------------------------------------------------------------------
(* Sequence numbers *)

HasNum(o) == "seq_num" \in DOMAIN o
FieldIdx(os) == {i \in 1..Len(os) : IsField(os[i])}

\* C1: the field counter never decreases, a field's sequence number never
\* changes once the field is constructed, and every newly constructed field
\* holds a number strictly greater than that of every field constructed
\* before it.
C1_FieldNumbersIncrease ==
    [][/\ field_counter' >= field_counter
       /\ \A i \in FieldIdx(objs) :
            /\ i \in FieldIdx(objs')
            /\ objs'[i].seq_num = objs[i].seq_num
       /\ \A j \in FieldIdx(objs') \ FieldIdx(objs) :
            /\ objs'[j].seq_num = field_counter'
            /\ \A i \in FieldIdx(objs) :
                 objs[i].seq_num < objs'[j].seq_num]_vars

\* three fields of three different classes were constructed, a key among
\* the declarations or a rejected call in between notwithstanding
C1_Witness ==
    /\ Len(objs) = 3
    /\ FieldIdx(objs) = {1, 2, 3}
    /\ Cardinality({objs[i].t : i \in 1..3}) = 3
    /\ objs[3].seq_num = 3

\* C2: over any interleaved sequence of field and key constructions every
\* declaration holds a sequence number, greater than the number of every
\* earlier declaration of either kind (so no field and key share a number).
C2_OneSharedCounter ==
    \A j \in 1..Len(objs) :
        /\ HasNum(objs[j])
        /\ \A i \in 1..(j - 1) : objs[i].seq_num < objs[j].seq_num

\* C3: when all threads are done, the fields they constructed hold pairwise
\* distinct sequence numbers and the counter equals its start value (0)
\* plus the number of constructions.
C3_AtomicIncrement ==
    (\A t \in Threads : pc[t] = "idle") =>
        /\ field_counter = Len(objs)
        /\ \A i, j \in 1..Len(objs) :
             i # j => objs[i].seq_num # objs[j].seq_num

-----------------------------------------------------------------------------
(* Primary keys *)

\* C10: every Int or Bigint that exists with primary_key=True has null False
\* and default None whatever was requested, and one constructed with
\* primary_key=False keeps the null and default it was given.
C10_PrimaryKeyInvariant ==
    /\ \A i \in 1..Len(objs) :
         (objs[i].t \in {"Int", "Bigint"} /\ objs[i].primary_key = True) =>
             (objs[i].null = False /\ objs[i].default = None)
    /\ (ret.fn \in {"Int", "Bigint"} /\ ret.err = ""
            /\ ret.primary_key = False) =>
           /\ objs[Len(objs)].null = ret.null
           /\ objs[Len(objs)].default = ret.default

\* a primary key was requested with null=True and a default, and the object
\* exists
C10_Witness ==
    /\ ret.fn \in {"Int", "Bigint"}
    /\ ret.err = ""
    /\ ret.primary_key = True
    /\ ret.null = True
    /\ ret.default = PyInt(1)
    /\ objs[Len(objs)].primary_key = True

-----------------------------------------------------------------------------
(* Expressions: what the calls return *)

\* the text e.sql() returns
Sql(e) == Expr__sql__(e).val.s

\* C4: a & b renders as (<a>) AND (<b>) and a | b as (<a>) OR (<b>), <a> and
\* <b> being the renderings of the operands, each in its own parentheses,
\* left operand first, whether or not an operand is itself a composition.
C4_LogicParenthesizes ==
    (ret.fn \in {"__and__", "__or__"} /\ ret.err = "") =>
        /\ ret.val.logic
        /\ Sql(ret.val) =
              "(" \o Sql(ret.self) \o ") "
                  \o (IF ret.fn = "__and__" THEN "AND" ELSE "OR")
                  \o " (" \o Sql(ret.arg) \o ")"

\* (a & b) | c was built from three comparisons
C4_Witness ==
    /\ ret.fn = "__or__"
    /\ ret.err = ""
    /\ ret.self.logic
    /\ ~ret.arg.logic
    /\ Sql(ret.val) = "((age > 10) AND (name = test)) OR (age > 10)"

\* C5: & and | between an expression and an expression or a boolean, on
\* either side, yield an expression; with any other operand they raise and
\* yield none.
C5_OperandDomain ==
    (ret.fn \in {"__and__", "__or__", "__rand__", "__ror__"}) =>
        IF ret.arg.t \in {"Expr", "bool"}
        THEN ret.err = "" /\ ret.val.t = "Expr"
        ELSE ret.err # "" /\ ret.val = None

\* C6: c[a:b] with both bounds present is the expression c.between(a, b)
\* (same operands, operator and rendering); a slice lacking a bound raises
\* ValueError and yields no expression; c[x] for any other x is c == x.
C6_GetItem ==
    (ret.fn = "__getitem__") =>
        IF ret.arg.t = "slice"
        THEN IF ret.arg.start # None /\ ret.arg.stop # None
             THEN LET b == Column_between(ret.self, ret.arg.start, ret.arg.stop)
                  IN  /\ ret.err = ""
                      /\ ret.val.lhs = b.lhs
                      /\ ret.val.op = "BETWEEN" /\ b.op = "BETWEEN"
                      /\ ret.val.rhs = b.rhs
                      /\ Sql(ret.val) = Sql(b)
                      /\ env[ret.dst] = ret.val
             ELSE ret.err = "ValueError" /\ ret.val = None
        ELSE /\ ret.err = ""
             /\ ret.val = Column__eq__(ret.self, ret.arg)
             /\ env[ret.dst] = ret.val

\* age[10:30] was evaluated
C6_Witness ==
    /\ ret.fn = "__getitem__"
    /\ ret.arg = PySlice(PyInt(10), PyInt(30))
    /\ ret.err = ""
    /\ Sql(env["x"]) = "age BETWEEN 10 AND 30"

\* C7: c == v has operator IS when v is None and = otherwise, c != v has
\* IS NOT when v is None and != otherwise, is_null(True) is c IS None and
\* is_null(False) is c IS NOT None; the column's name is the left operand.
C7_NullAwareEquality ==
    /\ (ret.fn = "__eq__") =>
          /\ ret.val.op = (IF ret.arg = None THEN "IS" ELSE "=")
          /\ ret.val.lhs = ret.self.name /\ ret.val.rhs = ret.arg
    /\ (ret.fn = "__ne__") =>
          /\ ret.val.op = (IF ret.arg = None THEN "IS NOT" ELSE "!=")
          /\ ret.val.lhs = ret.self.name /\ ret.val.rhs = ret.arg
    /\ (ret.fn = "is_null") =>
          /\ ret.val.op = (IF ret.arg = True THEN "IS" ELSE "IS NOT")
          /\ ret.val.lhs = ret.self.name /\ ret.val.rhs = None

\* name == None was evaluated
C7_Witness ==
    /\ ret.fn = "__eq__"
    /\ ret.self = Name
    /\ ret.arg = None
    /\ Sql(env["x"]) = "name IS None"

\* C8: rendering an IN / NOT IN / EXISTS expression whose right-hand side
\* is iterable leaves one tuple holding its elements in order as the
\* operand; with a right-hand side that is not iterable it raises TypeError
\* and returns no text.
C8_MembershipValidation ==
    (ret.fn = "sql" /\ ret.self.op \in {"IN", "NOT IN", "EXISTS"}) =>
        IF IsIterable(ret.self.rhs)
        THEN /\ ret.err = ""
             /\ env[ret.dst].rhs.t = "tuple"
             /\ ret.self.rhs.t = "list" =>
                    env[ret.dst].rhs.items = ret.self.rhs.items
        ELSE ret.err = "TypeError" /\ ret.val = None

\* the python operators of the claim: <<method, reflected method, token>>
ArithOperators ==
    {<<"__add__", "__radd__", "+">>, <<"__sub__", "__rsub__", "-">>,
     <<"__mul__", "__rmul__", "*">>, <<"__truediv__", "__rtruediv__", "/">>,
     <<"__xor__", "__rxor__", "#">>}

\* C9: for + - * / ^ and a literal v, c op v has the column on the left and
\* v on the right, v op c has v on the left and the column on the right,
\* both with the operator's one token, and the text shows the operands in
\* that order.
C9_ReversedOperatorsMirror ==
    \A o \in ArithOperators :
        /\ (ret.fn = o[1]) =>
              /\ ret.val.lhs = ret.self.name /\ ret.val.rhs = ret.arg
              /\ ret.val.op = o[3]
              /\ Sql(ret.val) =
                    Str(ret.self.name) \o " " \o o[3] \o " " \o Str(ret.arg)
        /\ (ret.fn = o[2]) =>
              /\ ret.val.lhs = ret.arg /\ ret.val.rhs = ret.self.name
              /\ ret.val.op = o[3]
              /\ Sql(ret.val) =
                    Str(ret.arg) \o " " \o o[3] \o " " \o Str(ret.self.name)

\* 10 - age was evaluated
C9_Witness ==
    /\ ret.fn = "__rsub__"
    /\ ret.self = Age
    /\ ret.arg = PyInt(10)
    /\ Sql(env["x"]) = "10 - age"

-----------------------------------------------------------------------------
(* Declarations: what is rejected, and what the DDL text is *)

FieldClasses == {"Tinyint", "Smallint", "Int", "Bigint", "Text"}
KeyClasses == {"Key", "UniqueKey"}

\* C11: a call Int(...) or Bigint(...) with primary_key=True and a default
\* other than None raises the programming error, and no field object results
\* from it.
C11_PrimaryKeyDefaultRejected ==
    (ret.fn \in {"Int", "Bigint"} /\ ret.primary_key = True
        /\ ret.default # None) =>
        /\ ret.err = "ProgrammingError"
        /\ \A i \in FieldIdx(objs) : objs[i].seq_num # ret.before + 1

\* C12: build() of a key named n over the columns c1..ck returns
\* KEY, n in back-quotes, then the back-quoted columns in declared order,
\* separated by a comma and a space, in parentheses; a COMMENT clause follows
\* exactly when the comment is not empty; UniqueKey puts UNIQUE in front.
C12_KeyRendering ==
    (ret.fn = "build"
        /\ \A k \in 1..Len(ret.self.column) :
             ret.self.column[k] \in {BQ \o "age" \o BQ, BQ \o "name" \o BQ}) =>
        /\ ret.err = ""
        /\ ret.val =
              PyStr((IF ret.self.t = "UniqueKey" THEN "UNIQUE " ELSE "")
                    \o "KEY " \o BQ \o ret.self.name.s \o BQ \o " ("
                    \o Join(", ", ret.self.column) \o ")"
                    \o (IF ret.self.comment.s # ""
                        THEN " COMMENT '" \o ret.self.comment.s \o "'"
                        ELSE ""))

\* C13: a key is constructed only from a column reference, a str, or a list
\* or tuple of these; the key then covers the name of each column reference
\* and each str itself, in the order given.  With any other element the
\* constructor raises TypeError and no key results.
C13_ColumnListValidation ==
    ret.fn \in KeyClasses =>
        LET c == ret.column
            elems == IF c.t \in {"list", "tuple"} THEN c.items ELSE <<c>>
            names == [k \in 1..Len(elems) |->
                         IF elems[k].t = "str" THEN elems[k].s
                         ELSE IF IsColumn(elems[k]) THEN elems[k].name.s
                         ELSE ""]
        IN  IF \A k \in 1..Len(elems) :
                  elems[k].t = "str" \/ IsColumn(elems[k])
            THEN /\ ret.err = ""
                 /\ objs[Len(objs)].column =
                        [k \in 1..Len(elems) |-> BQ \o names[k] \o BQ]
            ELSE /\ ret.err = "TypeError"
                 /\ \A i \in 1..Len(objs), target \in Targets :
                      objs[i] # BaseIndex__init__([t |-> ret.fn], c,
                                                  ret.comment, ret.name,
                                                  target)

\* C14: hashing a field or key constructed without a name, or asking for its
\* DDL text, raises the missing-column-name error and returns nothing; the
\* hash of a key constructed with a name is the hash of that name.
C14_MissingName ==
    LET unnamed ==
            \/ IsField(ret.self) /\ ret.self.name = None
            \/ \E cls \in KeyClasses, column \in ColumnArgs,
                  comment \in CommentArgs, target \in Targets :
                 ret.self = BaseIndex__init__([t |-> cls], column, comment,
                                              None, target)
    IN  ret.fn \in {"__hash__", "_stmt", "FieldBase.sql", "build"} =>
            /\ unnamed => (ret.err = "NoColumnNameError" /\ ret.val = None)
            /\ (ret.fn = "__hash__" /\ IsKey(ret.self) /\ ~unnamed) =>
                   (ret.err = "" /\ ret.val = str__hash__(ret.self.name))

\* the clauses a field's DDL text ends with, when its default is given: the
\* null clause, the DEFAULT clause, then the COMMENT clause if there is a
\* comment
DefaultClauses(self) ==
    (IF self.null = True THEN "NULL" ELSE "NOT NULL")
        \o " DEFAULT " \o Str(self.default)
        \o (IF self.comment.s # ""
            THEN " COMMENT '" \o self.comment.s \o "'" ELSE "")

\* C15: for a field with a default other than None, the DDL text is produced,
\* with the DEFAULT clause after the null clause and before the COMMENT
\* clause, if the default is an instance of the python type of the field (int
\* for the integer fields); if it is not, an error is raised and no text is
\* produced.
C15_DefaultTypeChecked ==
    (ret.fn \in {"_stmt", "FieldBase.sql"} /\ ret.self.default # None) =>
        IF ret.self.default.t \in {"int", "bool"}
        THEN /\ ret.err = ""
             /\ ret.val.t = "str"
             /\ LET v == ret.val.s
                    e == DefaultClauses(ret.self)
                IN  /\ Len(v) >= Len(e)
                    /\ SubSeq(v, Len(v) - Len(e) + 1, Len(v)) = e
        ELSE ret.err # "" /\ ret.val = None

\* C16: rendering an expression, or using it as an operand of & or |, leaves
\* the object as it was built (operands, operator, flat and logic flags), and
\* rendering it again returns the same text.
C16_ExprImmutable ==
    [][/\ \A m \in Names :
            (env[m].t = "Expr" /\ (ret'.fn = "sql" \/ m # ret'.dst)) =>
                env'[m] = env[m]
       /\ (ret.fn = "sql" /\ ret'.fn = "sql" /\ ret.dst = ret'.dst
              /\ ret.err = "" /\ ret'.err = "") =>
             ret'.val = ret.val]_vars

\* C17: a field constructor that raises ValueError for its null argument
\* leaves FieldBase._field_counter as it found it, so that the fields that
\* exist hold the numbers 1, 2, ... in construction order with no gap and the
\* counter is the number of the last of them.
C17_RejectedConsumesNothing ==
    /\ (ret.fn \in FieldClasses /\ ret.err = "ValueError") =>
           field_counter = ret.before
    /\ field_counter = Cardinality(FieldIdx(objs))
    /\ \A i \in FieldIdx(objs) :
         objs[i].seq_num = Cardinality({j \in FieldIdx(objs) : j <= i})

\* a constructor call was rejected after two fields had been constructed
C17_Witness ==
    /\ ret.fn \in FieldClasses
    /\ ret.err = "ValueError"
    /\ ret.before = 2
    /\ field_counter = 2
    /\ Cardinality(FieldIdx(objs)) = 2

====
